---- MODULE Spec2Model ----
(***************************************************************************)
(* State-machine model of the control-protocol engine of clawd_code_sdk:   *)
(* the Query class (_internal/query.py), the stateful ClaudeSDKClient      *)
(* (client.py) and the one-shot facade (_internal/client.py).              *)
(*                                                                         *)
(* Atomicity: the runtime is a cooperative scheduler, so one action is the *)
(* code a task runs between two suspension points.  A transport write is   *)
(* taken as one step (the transport serialises writes).                    *)
(***************************************************************************)
EXTENDS Integers, Sequences, FiniteSets, TLC

\* ------------------------------------------------------------------ bounds
MaxFrames == 2        \* frames the CLI emits on stdout in one run
MaxRequests == 2      \* outbound control requests issued in one run
MaxInput == 1         \* user frames in the consumer's input iterable
MaxStarts == 2        \* calls of Query.start() on a running engine
MaxConcurrentSessions == 1   \* SessionManager(max_concurrent_sessions=...)
MaxSends == 2         \* calls of Session.send() in one run
MaxEmits == 1         \* messages the CLIs of all sessions emit in one run
MaxPermissionRequests == 3   \* can_use_tool requests answered in one run
MaxCloses == 2        \* calls of Session.close() in one run
NumWriters == 4       \* tasks that call Transport.write() concurrently
\* Request ids are modelled by the counter they are built from ("req_<n>_<hex>");
\* id 0 stands for an id the SDK never issued and for "no id" in a frame.

\* --------------------------------------------------------------- constants
NoSub == "-"           \* a frame without a subtype; "no outcome yet"

\* Subtypes parse_control_request accepts (the members of ControlRequestUnion).
InboundSubtypes ==
    {"interrupt", "can_use_tool", "initialize", "set_permission_mode",
     "hook_callback", "mcp_message", "rewind_files", "stop_task"}

\* Subtypes the CLI is let to send: one per branch of _handle_control_request
\* and one that is no member of the union.
CliSubtypes ==
    {"can_use_tool", "hook_callback", "mcp_message", "interrupt", "unknown_subtype"}

\* Values of "type" the CLI is let to send on conversation frames.
ConvTypes == {"assistant", "result", "end", "error"}

\* The wrappers over _send_control_request the client exposes.  Each is
\* `await self._send_control_request({...})`; interrupt stands for them all.
ControlOps == {"interrupt"}

\* An assistant frame may carry an error kind (its "error" field, modelled by
\* the frame's sub); the kind the CLI is let to send.
CliErrorKinds == {"rate_limit"}

HookEvent == "PreToolUse"
ServerName == "calc"

\* options.hooks maps an event to its list of matchers; a matcher is modelled
\* by the number of its hook callables (HookMatcher.hooks defaults to []).

NoHooks == [e \in {} |-> <<>>]

\* The option sets a run starts from: no feature, each feature alone (a hook
\* event whose matcher has no callable is one), all of them, and a permission
\* callback together with a permission-prompt-tool name (a name without a
\* callback only changes the arguments of the CLI).
OptionSets ==
    { [can_use_tool |-> FALSE, hooks |-> NoHooks, sdk_mcp_servers |-> {},
       permission_prompt_tool_name |-> FALSE],
      [can_use_tool |-> TRUE, hooks |-> NoHooks, sdk_mcp_servers |-> {},
       permission_prompt_tool_name |-> FALSE],
      [can_use_tool |-> FALSE, hooks |-> [e \in {HookEvent} |-> <<0>>],
       sdk_mcp_servers |-> {}, permission_prompt_tool_name |-> FALSE],
      [can_use_tool |-> FALSE, hooks |-> [e \in {HookEvent} |-> <<1>>],
       sdk_mcp_servers |-> {}, permission_prompt_tool_name |-> FALSE],
      [can_use_tool |-> FALSE, hooks |-> NoHooks, sdk_mcp_servers |-> {ServerName},
       permission_prompt_tool_name |-> FALSE],
      [can_use_tool |-> TRUE, hooks |-> [e \in {HookEvent} |-> <<1>>],
       sdk_mcp_servers |-> {ServerName}, permission_prompt_tool_name |-> FALSE],
      [can_use_tool |-> TRUE, hooks |-> NoHooks, sdk_mcp_servers |-> {},
       permission_prompt_tool_name |-> TRUE] }

VARIABLES
    \* consumer configuration (fixed in a run)
    facade,                    \* "client" (ClaudeSDKClient) or "oneshot" (query())
    can_use_tool,              \* options.can_use_tool is set
    hooks,                     \* options.hooks
    sdk_mcp_servers,           \* names of in-process servers
    permission_prompt_tool_name, \* options.permission_prompt_tool_name is set
    prompt,                    \* "string" | "stream" (an AsyncIterable)
    \* facades
    client_pc,                 \* position of connect()/disconnect()
    client_query,              \* ClaudeSDKClient._query is set
    oneshot_pc,                \* position of process_query
    \* Transport
    transport,                 \* "new" | "open" | "closed"
    stdin_open,                \* stdin not yet half-closed
    stdin,                     \* frames written to the child's stdin
    nread,                     \* frames read from stdout so far
    \* Query
    tg,                        \* Query._tg is not None
    initialized,               \* Query._initialized
    closed,                    \* Query._closed
    request_counter,           \* Query._request_counter
    pending_control_responses, \* request id -> event is set
    pending_control_results,   \* request id -> recorded outcome
    hook_callbacks,            \* registered callback ids
    first_result_event,        \* Query._first_result_event is set
    message_stream,            \* buffer of the conversation channel
    \* tasks
    reader,                    \* position of _read_messages (failed: it caught an
                               \* Exception; sent_end: line 279 has sent)
    handlers,                  \* inbound request id -> handler task (raised: its
                               \* callback raised)
    calls,                     \* outbound request id -> caller of _send_control_request
    stream,                    \* the stream_input task
    consumer,                  \* position of the consumer of receive_messages
    \* history (read by the properties only)
    readConv,                  \* conversation frames read, in wire order
    yielded,                   \* messages receive_messages yielded
    nInbound,                  \* control_request frames read
    errPending,                \* ids pending with no result when the reader failed
    firstOutcome,              \* request id -> first outcome recorded for it
    notConnected,              \* control operations that raised "Not connected"
    closes,                    \* calls of Query.close(): calling task and result
    dropped,                   \* ids of the control_response frames the reader dropped
    starts                     \* calls of Query.start() and reader tasks it started

\* Components specified on their own (the engine's actions leave them alone).
VARIABLES
    \* Transport.write(), byte level
    write_lock,                \* the writer that holds the write lock, or NoWriter
    writers,                   \* writer -> position in write()
    stdin_bytes,               \* chunks that reached the child's stdin, in order
    \* in-process MCP server and one nested JSON-RPC request to it
    mcp_server,                \* the server create_sdk_mcp_server built, or NoServer
    mcp_request,               \* the JSON-RPC message of an mcp_message request
    mcp_response,              \* the control_response written for it
    \* ClaudeSDKClient.receive_response()
    response,                  \* messages its current (or last) iteration yielded
    \* SessionManager and its Sessions
    sessions,                  \* the Sessions the manager created: id -> Session
    sends,                     \* the generators Session.send() returned, in order
    sm_raised,                 \* create_session calls that raised: <<id, error>>
    removed,                   \* ids no longer in SessionManager._sessions
    close_all,                 \* position of SessionManager.close_all()
    \* Query._handle_permission_request
    allow_shared,              \* updated_input of the one PermissionResultAllow
                               \* object a callback keeps and returns again
    permission_responses       \* the can_use_tool requests answered, in order

cfgVars == <<facade, can_use_tool, hooks, sdk_mcp_servers,
            permission_prompt_tool_name, prompt>>
facadeVars == <<client_pc, client_query, oneshot_pc>>
transportVars == <<transport, stdin_open, stdin, nread>>
queryVars == <<tg, initialized, closed, request_counter, pending_control_responses,
               pending_control_results, hook_callbacks, first_result_event,
               message_stream>>
taskVars == <<reader, handlers, calls, stream, consumer>>
histVars == <<readConv, yielded, nInbound, errPending, firstOutcome, notConnected,
              closes, dropped, starts>>
engineVars == <<cfgVars, facadeVars, transportVars, queryVars, taskVars, histVars>>
writeVars == <<write_lock, writers, stdin_bytes>>
mcpVars == <<mcp_server, mcp_request, mcp_response>>
managerVars == <<removed, close_all>>
sessionVars == <<sessions, sends, sm_raised, managerVars>>
permVars == <<allow_shared, permission_responses>>
compVars == <<writeVars, mcpVars, response, sessionVars, permVars>>
vars == <<engineVars, compVars>>

\* ------------------------------------------------------------------ helpers
Frame(t, i, s) == [type |-> t, id |-> i, sub |-> s]

Put(f, k, v) == [x \in DOMAIN f \cup {k} |-> IF x = k THEN v ELSE f[x]]
Drop(f, k) == [x \in DOMAIN f \ {k} |-> f[x]]

RECURSIVE SumSeq(_)
SumSeq(s) == IF s = <<>> THEN 0 ELSE Head(s) + SumSeq(Tail(s))

\* Number of hook callables initialize() registers.
HookCallableCount ==
    IF DOMAIN hooks = {} THEN 0 ELSE SumSeq(hooks[HookEvent])

\* Query.__init__: self.hooks = convert_hooks_to_internal_format(hooks) if hooks else {}
\* keeps every event key, so bool(self.hooks) is "the mapping has a key".
has_hooks == DOMAIN hooks # {}

\* Engine lifecycle state of the data model, read off the Query's fields.
Lifecycle ==
    IF closed THEN "closed"
    ELSE IF initialized THEN "initialized"
    ELSE IF tg THEN "reader_started"
    ELSE "fresh"

\* Query.__init__ takes these keyword parameters and no others.
QueryInitParams ==
    {"transport", "can_use_tool", "hooks", "sdk_mcp_servers", "initialize_timeout",
     "agents", "system_prompt", "append_system_prompt", "json_schema",
     "prompt_suggestions"}

\* Keywords ClaudeSDKClient.connect passes to Query(...).
ClientConnectKwargs ==
    {"transport", "can_use_tool", "hooks", "sdk_mcp_servers", "initialize_timeout",
     "agents"}

\* Keywords InternalClient.process_query passes to Query(...).
ProcessQueryKwargs ==
    {"transport", "is_streaming_mode", "can_use_tool", "hooks", "sdk_mcp_servers",
     "agents"}

\* A Python call with a keyword the callee does not declare raises TypeError.
QueryInitAccepts(kwargs) == kwargs \subseteq QueryInitParams

\* The tasks that write: handlers with a response, an outbound request, streamed
\* user input.
Writers == 1..NumWriters
NoWriter == 0

\* JSON-RPC error codes of process_mcp_request.
MethodNotFound == -32601
InternalError == -32603

\* The methods a nested JSON-RPC message may name: the four the engine routes
\* and one it does not.
McpMethods ==
    {"initialize", "tools/list", "tools/call", "notifications/initialized",
     "resources/list"}

\* ToolName is the tool the consumer may register; tools/call names it or
\* a tool nobody registered.
ToolName == "add"
CalledTools == {ToolName, "missing"}
JsonRpcIds == {7, 8}
NoServer == [tools |-> {}, built |-> FALSE, catches |-> FALSE]
NoMcp == [pc |-> "none"]

\* Python's None, and the tool inputs of can_use_tool requests.
None == "None"
ToolInputs == {"ls", "rm"}

\* What a can_use_tool callback returns: the PermissionResultAllow object it
\* keeps (built once, with no updated_input), a new PermissionResultAllow
\* (with or without an updated_input), or a PermissionResultDeny.
CallbackResults ==
    {[kind |-> "shared", updated_input |-> None], [kind |-> "deny", updated_input |-> None]}
        \cup {[kind |-> "new", updated_input |-> u] : u \in ToolInputs \cup {None}}

\* No session (close_all is not inside a close()), and close_all not called.
NoSessionId == "none"
NoCloseAll == [pc |-> "none", todo |-> {}, awaiting |-> NoSessionId]

\* ------------------------------------------------------------------- Init
NoStream == [pc |-> "none", left |-> 0, ctx |-> NoSub]

Init ==
    /\ facade \in {"client", "oneshot"}
    /\ \E o \in OptionSets :
          /\ can_use_tool = o.can_use_tool
          /\ hooks = o.hooks
          /\ sdk_mcp_servers = o.sdk_mcp_servers
          /\ permission_prompt_tool_name = o.permission_prompt_tool_name
    /\ prompt \in {"string", "stream"}
    /\ client_pc = "new"
    /\ client_query = FALSE
    /\ oneshot_pc = "new"
    /\ transport = "new"
    /\ stdin_open = TRUE
    /\ stdin = <<>>
    /\ nread = 0
    /\ tg = FALSE
    /\ initialized = FALSE
    /\ closed = FALSE
    /\ request_counter = 0
    /\ pending_control_responses = <<>>
    /\ pending_control_results = <<>>
    /\ hook_callbacks = {}
    /\ first_result_event = FALSE
    /\ message_stream = <<>>
    /\ reader = [pc |-> "idle", failed |-> FALSE, sent_end |-> FALSE]
    /\ handlers = <<>>
    /\ calls = <<>>
    /\ stream = NoStream
    /\ consumer = "idle"
    /\ readConv = <<>>
    /\ yielded = <<>>
    /\ nInbound = 0
    /\ errPending = {}
    /\ firstOutcome = <<>>
    /\ notConnected = 0
    /\ closes = <<>>
    /\ dropped = {}
    /\ starts = [calls |-> 0, readers |-> 0]
    /\ write_lock = NoWriter
    /\ writers = [w \in Writers |-> "idle"]
    /\ stdin_bytes = <<>>
    /\ mcp_server = NoServer
    /\ mcp_request = NoMcp
    /\ mcp_response = NoMcp
    /\ response = <<>>
    /\ sessions = <<>>
    /\ sends = <<>>
    /\ sm_raised = {}
    /\ removed = {}
    /\ close_all = NoCloseAll
    /\ allow_shared = None
    /\ permission_responses = <<>>

\* -------------------------------------------------------------- Transport
\* write(): fails once stdin is half-closed or the transport is closed.
CanWrite == transport = "open" /\ stdin_open

\* ------------------------------------------------- task-group cancellation
\* Tasks of the engine's task group that are suspended when its cancel scope
\* is cancelled end there: the reader re-raises the cancellation (and the send
\* in its finally block is itself a cancelled checkpoint), a handler or
\* stream_input does not catch it (it is no Exception).
CancelledReader ==
    IF reader.pc \in {"running", "push_error", "finally"}
    THEN [reader EXCEPT !.pc = "cancelled"] ELSE reader

CancelledHandlers(hs) ==
    [i \in DOMAIN hs |->
        IF hs[i].pc \in {"spawned", "callback"}
        THEN [hs[i] EXCEPT !.pc = "cancelled"] ELSE hs[i]]

CancelledStream ==
    IF stream.pc \in {"writing", "wait"}
    THEN [stream EXCEPT !.pc = "cancelled"] ELSE stream

\* ------------------------------------------------------- _send_control_request
\* A caller of _send_control_request.  state and wrote are what the call saw.
Call(sub, pc, outcome, wrote) ==
    [sub |-> sub, pc |-> pc, outcome |-> outcome, state |-> Lifecycle, wrote |-> wrote]

\* connect() after `await self._query.initialize()` returned or raised: on
\* success initialize() sets _initialized and connect() spawns stream_input for
\* an AsyncIterable prompt; on failure connect() raises and keeps _query.
AfterInitialize(sub, outcome) ==
    IF sub # "initialize"
    THEN UNCHANGED <<client_pc, initialized, stream>>
    ELSE IF outcome = "success"
    THEN /\ initialized' = TRUE
         /\ client_pc' = "connected"
         /\ IF prompt = "stream" /\ tg
            THEN stream' = [pc |-> "writing", left |-> MaxInput, ctx |-> NoSub]
            ELSE UNCHANGED stream
    ELSE /\ client_pc' = "connect_failed"
         /\ UNCHANGED <<initialized, stream>>

\* Lines 353-361: the id is registered, then the request is written; a failing
\* write raises out of the function with the registration left in place.
SendControlRequest(sub) ==
    LET n == request_counter + 1 IN
    /\ request_counter' = n
    /\ pending_control_responses' = Put(pending_control_responses, n, FALSE)
    /\ IF CanWrite
       THEN /\ stdin' = Append(stdin, Frame("control_request", n, sub))
            /\ calls' = Put(calls, n, Call(sub, "waiting", NoSub, TRUE))
       ELSE /\ calls' = Put(calls, n, Call(sub, "done", "write_error", FALSE))
            /\ UNCHANGED stdin

\* Lines 364-374: the event is set; the result is popped and returned or raised.
CallResume(n) ==
    /\ n \in DOMAIN calls
    /\ calls[n].pc = "waiting"
    /\ n \in DOMAIN pending_control_responses
    /\ pending_control_responses[n]
    /\ n \in DOMAIN pending_control_results
    /\ calls' = [calls EXCEPT ![n].pc = "done",
                              ![n].outcome = pending_control_results[n]]
    /\ pending_control_results' = Drop(pending_control_results, n)
    /\ pending_control_responses' = Drop(pending_control_responses, n)
    /\ AfterInitialize(calls[n].sub, pending_control_results[n])
    /\ UNCHANGED <<cfgVars, compVars, client_query, oneshot_pc, transportVars, tg, closed,
                   request_counter, hook_callbacks, first_result_event,
                   message_stream, reader, handlers, consumer, histVars>>

\* Lines 375-378: fail_after expires while the caller is still blocked on the
\* event (a set event ends the wait, so the deadline no longer applies).
CallTimeout(n) ==
    /\ n \in DOMAIN calls
    /\ calls[n].pc = "waiting"
    /\ n \in DOMAIN pending_control_responses
    /\ ~pending_control_responses[n]
    /\ calls' = [calls EXCEPT ![n].pc = "done", ![n].outcome = "timeout"]
    /\ pending_control_responses' = Drop(pending_control_responses, n)
    /\ pending_control_results' = Drop(pending_control_results, n)
    /\ AfterInitialize(calls[n].sub, "timeout")
    /\ UNCHANGED <<cfgVars, compVars, client_query, oneshot_pc, transportVars, tg, closed,
                   request_counter, hook_callbacks, first_result_event,
                   message_stream, reader, handlers, consumer, histVars>>

\* ------------------------------------------------------------ ClaudeSDKClient
\* A faulty variant of ValidateRejects that accepts every configuration.
ValidateAcceptsAll == FALSE

\* ClaudeAgentOptions.validate(), options.py lines 92-97: a permission
\* callback and a permission-prompt-tool name are mutually exclusive.
ValidateRejects == can_use_tool /\ permission_prompt_tool_name

\* connect(), lines 100-143: validation, transport.connect(), Query(...).
ClientConnect ==
    /\ facade = "client"
    /\ client_pc = "new"
    /\ IF ValidateRejects \/ (can_use_tool /\ prompt = "string")
       THEN /\ client_pc' = "value_error"
            /\ UNCHANGED <<client_query, transport>>
       ELSE /\ transport' = "open"
            /\ IF QueryInitAccepts(ClientConnectKwargs)
               THEN client_query' = TRUE /\ client_pc' = "starting"
               ELSE client_query' = FALSE /\ client_pc' = "type_error"
    /\ UNCHANGED <<cfgVars, compVars, oneshot_pc, stdin_open, stdin, nread, queryVars,
                   taskVars, histVars>>

\* A faulty variant of StartCreates: start() without its test of _tg.
StartCreatesAlways == TRUE

\* Line 207: `if self._tg is None`.
StartCreates == ~tg

\* The body of Query.start(), lines 207-213: a task group is created and
\* entered and the reader task started in it, unless there is a task group.
Start ==
    IF StartCreates
    THEN /\ tg' = TRUE
         /\ reader' = [pc |-> "running", failed |-> FALSE, sent_end |-> FALSE]
         /\ starts' = [calls |-> starts.calls + 1, readers |-> starts.readers + 1]
    ELSE /\ starts' = [starts EXCEPT !.calls = @ + 1]
         /\ UNCHANGED <<tg, reader>>

\* Query.start(), awaited by connect() at line 145.
QueryStart ==
    /\ client_pc = "starting"
    /\ Start
    /\ client_pc' = "initializing"
    /\ UNCHANGED <<cfgVars, compVars, client_query, oneshot_pc, transportVars, initialized,
                   closed, request_counter, pending_control_responses,
                   pending_control_results, hook_callbacks, first_result_event,
                   message_stream, handlers, calls, stream, consumer, readConv,
                   yielded, nInbound, errPending, firstOutcome, notConnected, closes,
                   dropped>>

\* Query.start() called again on the running engine by a holder of it (through
\* `async with query`, say).
QueryStartRunning ==
    /\ tg
    /\ ~closed
    /\ starts.calls < MaxStarts
    /\ Start
    /\ UNCHANGED <<cfgVars, compVars, facadeVars, transportVars, initialized,
                   closed, request_counter, pending_control_responses,
                   pending_control_results, hook_callbacks, first_result_event,
                   message_stream, handlers, calls, stream, consumer, readConv,
                   yielded, nInbound, errPending, firstOutcome, notConnected, closes,
                   dropped>>

\* Query.initialize(), lines 160-194: every hook callable gets the id
\* hook_<n>; then the initialize request is sent and awaited.
Initialize ==
    /\ client_pc = "initializing"
    /\ request_counter < MaxRequests
    /\ hook_callbacks' = 0..(HookCallableCount - 1)
    /\ SendControlRequest("initialize")
    /\ client_pc' = IF CanWrite THEN "await_initialize" ELSE "connect_failed"
    /\ UNCHANGED <<cfgVars, compVars, client_query, oneshot_pc, transport, stdin_open, nread,
                   tg, initialized, closed, pending_control_results,
                   first_result_event, message_stream, reader, handlers, stream,
                   consumer, histVars>>

\* _ensure_connected(), lines 80-84, then one of the wrappers (interrupt,
\* set_model, get_mcp_status, ...), each a call of _send_control_request.
ClientOp(sub) ==
    /\ facade = "client"
    /\ client_pc \in {"connected", "connect_failed", "disconnected",
                      "disconnect_failed"}
    /\ request_counter + notConnected < MaxRequests
    /\ IF ~client_query
       THEN /\ notConnected' = notConnected + 1
            /\ UNCHANGED <<request_counter, pending_control_responses, stdin, calls>>
       ELSE /\ SendControlRequest(sub)
            /\ UNCHANGED notConnected
    /\ UNCHANGED <<cfgVars, compVars, facadeVars, transport, stdin_open, nread, tg, initialized,
                   closed, pending_control_results, hook_callbacks,
                   first_result_event, message_stream, reader, handlers, stream,
                   consumer, readConv, yielded, nInbound, errPending, firstOutcome,
                   closes, dropped, starts>>

\* -------------------------------------------------------------- the reader
\* parse_control_request: TypeAdapter.validate_python raises for a subtype that
\* is no member of the discriminated union.
ParseOk(sub) == sub \in InboundSubtypes

\* Ids a fatal reader error fails: pending, with no result recorded (line 272).
Unresolved == {n \in DOMAIN pending_control_responses :
                  n \notin DOMAIN pending_control_results}

\* A faulty variant of ReaderFatal that logs the error and goes on to the
\* sentinels without failing the pending requests.
ReaderFatalNoDrain ==
    /\ errPending' = {n \in DOMAIN pending_control_responses :
                          n \notin DOMAIN pending_control_results}
    /\ reader' = [reader EXCEPT !.pc = "push_error", !.failed = TRUE]
    /\ UNCHANGED <<pending_control_results, pending_control_responses, firstOutcome>>

\* Lines 268-274, the body of `except Exception`, up to the first await: the
\* error is recorded for every unresolved id and its event is set.
ReaderFatal ==
    /\ pending_control_results' =
          [n \in DOMAIN pending_control_results \cup Unresolved |->
              IF n \in Unresolved THEN "transport" ELSE pending_control_results[n]]
    /\ pending_control_responses' =
          [n \in DOMAIN pending_control_responses |->
              IF n \in Unresolved THEN TRUE ELSE pending_control_responses[n]]
    /\ firstOutcome' =
          [n \in DOMAIN firstOutcome \cup Unresolved |->
              IF n \in DOMAIN firstOutcome THEN firstOutcome[n] ELSE "transport"]
    /\ errPending' = {n \in DOMAIN pending_control_responses :
                          n \notin DOMAIN pending_control_results}
    /\ reader' = [reader EXCEPT !.pc = "push_error", !.failed = TRUE]

\* Frames of the wire format within the bounds.
AllFrames ==
    {Frame("control_response", n, k) :
        n \in 1..MaxRequests, k \in {"success", "error"}}
    \cup {Frame("control_response", 0, "success")}
    \cup {Frame("control_request", i, k) : i \in 1..MaxFrames, k \in CliSubtypes}
    \cup {Frame("control_cancel_request", 0, NoSub)}
    \cup {Frame(t, 0, NoSub) : t \in ConvTypes}
    \cup {Frame("assistant", 0, e) : e \in CliErrorKinds}

\* The CLI may emit f next: a control_response names an id the SDK issued or
\* the never-issued id 0; a control_request carries a fresh id.
CliMayEmit(f) ==
    /\ f.type = "control_response" => f.id <= request_counter
    /\ f.type = "control_request" => f.id = nInbound + 1

\* A faulty variant of IsPending that takes every id for a pending one.
IsPendingAlways(id) == TRUE

\* Line 238: `if request_id in self.pending_control_responses`.
IsPending(id) == id \in DOMAIN pending_control_responses

\* Lines 235-245: a control_response for a pending id records the outcome
\* (whatever is recorded already) and sets the event; other ids are dropped.
RouteControlResponse(f) ==
    /\ IF IsPending(f.id)
       THEN LET out == IF f.sub = "error" THEN "protocol" ELSE "success" IN
            /\ pending_control_results' = Put(pending_control_results, f.id, out)
            /\ pending_control_responses' = Put(pending_control_responses, f.id, TRUE)
            /\ firstOutcome' =
                  IF f.id \in DOMAIN firstOutcome THEN firstOutcome
                  ELSE Put(firstOutcome, f.id, out)
            /\ UNCHANGED dropped
       ELSE /\ dropped' = dropped \cup {f.id}
            /\ UNCHANGED <<pending_control_results, pending_control_responses,
                           firstOutcome>>
    /\ UNCHANGED <<reader, handlers, nInbound, first_result_event, message_stream,
                   readConv, errPending>>

\* Lines 247-253: the request is parsed in the reader, inside its try block,
\* and the handler is started in the task group; a parse error is an
\* Exception of the reader.
RouteControlRequest(f) ==
    /\ nInbound' = nInbound + 1
    /\ IF ParseOk(f.sub)
       THEN /\ handlers' = Put(handlers, f.id,
                                 [sub |-> f.sub, pc |-> "spawned", raised |-> FALSE])
            /\ UNCHANGED <<reader, pending_control_results,
                           pending_control_responses, firstOutcome, errPending>>
       ELSE /\ ReaderFatal
            /\ UNCHANGED handlers
    /\ UNCHANGED <<first_result_event, message_stream, readConv, dropped>>

\* A faulty variant of RouteOther without the case of line 254: a
\* control_cancel_request falls to `case _` and goes onto the channel.
RouteOtherNoCancelCase(f) ==
    /\ first_result_event' = (first_result_event \/ f.type = "result")
    /\ message_stream' = Append(message_stream, f)
    /\ readConv' = Append(readConv, f)
    /\ UNCHANGED <<reader, handlers, nInbound, pending_control_results,
                   pending_control_responses, firstOutcome, errPending, dropped>>

\* Lines 254-262: control_cancel_request is ignored; every other frame goes
\* onto the conversation channel, a result frame also sets the result event.
RouteOther(f) ==
    /\ IF f.type = "control_cancel_request"
       THEN UNCHANGED <<first_result_event, message_stream, readConv>>
       ELSE /\ first_result_event' = (first_result_event \/ f.type = "result")
            /\ message_stream' = Append(message_stream, f)
            /\ readConv' = Append(readConv, f)
    /\ UNCHANGED <<reader, handlers, nInbound, pending_control_results,
                   pending_control_responses, firstOutcome, errPending, dropped>>

\* A faulty variant of ReaderWaitsFor: the reader awaits
\* _handle_control_request itself and reads on when the handler is done.
ReaderWaitsForInline(hs) == {i \in DOMAIN hs : hs[i].pc \in {"spawned", "callback"}}

\* Lines 248-253: the handlers the reader waits for before its next frame:
\* none, `tg.start_soon(self._handle_control_request, ...)` makes each a task
\* of its own.  (The conversation channel has max_buffer_size=math.inf, lines
\* 134-136: its send() does not wait either.)
ReaderWaitsFor(hs) == {}

\* The frame types _read_messages routes itself, lines 235-255.
ControlTypes == {"control_response", "control_request", "control_cancel_request"}

\* One iteration of `async for message in self.transport.read_messages()`.
ReaderRead(f) ==
    /\ reader.pc = "running"
    /\ CliMayEmit(f)
    /\ ReaderWaitsFor(handlers) = {}
    /\ nread < MaxFrames
    /\ ~closed
    /\ nread' = nread + 1
    /\ CASE f.type = "control_response" -> RouteControlResponse(f)
         [] f.type = "control_request" -> RouteControlRequest(f)
         [] OTHER -> RouteOther(f)
    /\ UNCHANGED <<cfgVars, compVars, facadeVars, transport, stdin_open, stdin, tg,
                   initialized, closed, request_counter, hook_callbacks, calls,
                   stream, consumer, yielded, notConnected, closes, starts>>

\* read_messages() ends: the loop is left, the finally block runs next.
ReaderEOF ==
    /\ reader.pc = "running"
    /\ reader' = [reader EXCEPT !.pc = "finally"]
    /\ UNCHANGED <<cfgVars, compVars, facadeVars, transportVars, queryVars, handlers, calls,
                   stream, consumer, histVars>>

\* read_messages() raises (the child died, a frame overflowed the buffer).
ReaderRaise ==
    /\ reader.pc = "running"
    /\ ReaderFatal
    /\ UNCHANGED <<cfgVars, compVars, facadeVars, transportVars, tg, initialized, closed,
                   request_counter, hook_callbacks, first_result_event,
                   message_stream, handlers, calls, stream, consumer, readConv,
                   yielded, nInbound, notConnected, closes, dropped, starts>>

\* Line 276: the error sentinel is sent on the conversation channel.
ReaderPushError ==
    /\ reader.pc = "push_error"
    /\ message_stream' = Append(message_stream, Frame("error", 0, NoSub))
    /\ reader' = [reader EXCEPT !.pc = "finally"]
    /\ UNCHANGED <<cfgVars, compVars, facadeVars, transportVars, tg, initialized, closed,
                   request_counter, pending_control_responses,
                   pending_control_results, hook_callbacks, first_result_event,
                   handlers, calls, stream, consumer, histVars>>

\* Line 279: the end sentinel is sent on the conversation channel.
ReaderPushEnd ==
    /\ reader.pc = "finally"
    /\ message_stream' = Append(message_stream, Frame("end", 0, NoSub))
    /\ reader' = [reader EXCEPT !.pc = "done", !.sent_end = TRUE]
    /\ UNCHANGED <<cfgVars, compVars, facadeVars, transportVars, tg, initialized, closed,
                   request_counter, pending_control_responses,
                   pending_control_results, hook_callbacks, first_result_event,
                   handlers, calls, stream, consumer, histVars>>

\* ------------------------------------------------- inbound request handlers
\* The tail of _handle_control_request: the success response is written at
\* line 309; an exception of the try block (the write's included) is answered
\* by the write at line 314, whose own exception leaves the handler task and
\* cancels the task group it runs in.
WriteResponse(i, sub, raised) ==
    IF CanWrite
    THEN /\ stdin' = Append(stdin, Frame("control_response", i, sub))
         /\ handlers' = [handlers EXCEPT ![i].pc = "done", ![i].raised = raised]
         /\ UNCHANGED <<reader, stream>>
    ELSE /\ handlers' = [CancelledHandlers(handlers) EXCEPT ![i].pc = "crashed",
                                                           ![i].raised = raised]
         /\ reader' = CancelledReader
         /\ stream' = CancelledStream
         /\ UNCHANGED stdin

\* What the branch taken at lines 289-306 needs before it can answer:
\* "raise" (no callback to call), "await" (a consumer callback is awaited) or
\* "pass" (nothing to do).
HandlerBranch(sub) ==
    CASE sub = "can_use_tool" -> IF can_use_tool THEN "await" ELSE "raise"
      [] sub = "hook_callback" -> IF 0 \in hook_callbacks THEN "await" ELSE "raise"
      [] sub = "mcp_message" -> IF ServerName \in sdk_mcp_servers THEN "await" ELSE "pass"
      [] OTHER -> "pass"

\* The handler task runs up to its first await.
HandlerStart(i) ==
    /\ i \in DOMAIN handlers
    /\ handlers[i].pc = "spawned"
    /\ CASE HandlerBranch(handlers[i].sub) = "await" ->
               /\ handlers' = [handlers EXCEPT ![i].pc = "callback"]
               /\ UNCHANGED <<stdin, reader, stream>>
         [] HandlerBranch(handlers[i].sub) = "raise" ->
               WriteResponse(i, "error", FALSE)
         [] OTHER -> WriteResponse(i, "success", FALSE)
    /\ UNCHANGED <<cfgVars, compVars, facadeVars, transport, stdin_open, nread, queryVars,
                   calls, consumer, histVars>>

\* The awaited callback returns or raises.  An exception of an in-process tool
\* is caught by process_mcp_request and travels in a success response.
HandlerCallbackDone(i, raised) ==
    /\ i \in DOMAIN handlers
    /\ handlers[i].pc = "callback"
    /\ IF raised /\ handlers[i].sub # "mcp_message"
       THEN WriteResponse(i, "error", raised)
       ELSE WriteResponse(i, "success", raised)
    /\ UNCHANGED <<cfgVars, compVars, facadeVars, transport, stdin_open, nread, queryVars,
                   calls, consumer, histVars>>

\* --------------------------------------------------------------- stream_input
\* transport.end_input(): stdin is half-closed; ctx is why the task got there.
EndInput(why) ==
    /\ stdin_open' = FALSE
    /\ stream' = [stream EXCEPT !.pc = "done", !.ctx = why]

\* A faulty variant of StreamNeedsWait that looks at the tool servers only.
StreamNeedsWaitServersOnly == sdk_mcp_servers # {}

\* Line 482: the wait for the first result is taken for a non-empty
\* sdk_mcp_servers or a non-empty self.hooks.
StreamNeedsWait == sdk_mcp_servers # {} \/ has_hooks

\* Lines 474-477: one message of the iterable is written.
StreamWrite ==
    /\ stream.pc = "writing"
    /\ stream.left > 0
    /\ ~closed
    /\ IF CanWrite
       THEN /\ stdin' = Append(stdin, Frame("user", 0, NoSub))
            /\ stream' = [stream EXCEPT !.left = @ - 1]
       ELSE /\ stream' = [stream EXCEPT !.pc = "failed"]
            /\ UNCHANGED stdin
    /\ UNCHANGED <<cfgVars, compVars, facadeVars, transport, stdin_open, nread, queryVars,
                   reader, handlers, calls, consumer, histVars>>

\* Lines 479-495: the iterable is exhausted.
StreamExhausted ==
    /\ stream.pc = "writing"
    /\ stream.left = 0
    /\ IF StreamNeedsWait
       THEN stream' = [stream EXCEPT !.pc = "wait"] /\ UNCHANGED stdin_open
       ELSE EndInput("immediate")
    /\ UNCHANGED <<cfgVars, compVars, facadeVars, transport, stdin, nread, queryVars, reader,
                   handlers, calls, consumer, histVars>>

\* Line 489 returns: the result event is set.
StreamResult ==
    /\ stream.pc = "wait"
    /\ first_result_event
    /\ EndInput("result")
    /\ UNCHANGED <<cfgVars, compVars, facadeVars, transport, stdin, nread, queryVars, reader,
                   handlers, calls, consumer, histVars>>

\* Line 488: move_on_after(self._stream_close_timeout) expires first.
StreamTimeout ==
    /\ stream.pc = "wait"
    /\ ~first_result_event
    /\ EndInput("timeout")
    /\ UNCHANGED <<cfgVars, compVars, facadeVars, transport, stdin, nread, queryVars, reader,
                   handlers, calls, consumer, histVars>>

\* ----------------------------------------------------------- receive_messages
\* The consumer iterates client.receive_messages() once, which needs _query
\* (_ensure_connected).  Lines 501-509: the next item of the channel ends the
\* iteration ("end"), raises ("error") or is yielded.
ConsumerNext ==
    /\ client_query
    /\ consumer \in {"idle", "iterating"}
    /\ message_stream # <<>>
    /\ message_stream' = Tail(message_stream)
    /\ CASE Head(message_stream).type = "end" ->
               consumer' = "ended" /\ UNCHANGED yielded
         [] Head(message_stream).type = "error" ->
               consumer' = "raised" /\ UNCHANGED yielded
         [] OTHER ->
               /\ yielded' = Append(yielded, Head(message_stream))
               /\ consumer' = "iterating"
    /\ UNCHANGED <<cfgVars, compVars, facadeVars, transportVars, tg, initialized, closed,
                   request_counter, pending_control_responses,
                   pending_control_results, hook_callbacks, first_result_event,
                   reader, handlers, calls, stream, readConv, nInbound, errPending,
                   firstOutcome, notConnected, closes, dropped, starts>>

\* ClaudeSDKClient.receive_response(), client.py lines 407-410, over
\* receive_messages() (lines 155-157) and Query.receive_messages (lines
\* 501-509): one step takes the next item of the channel.  A call starts
\* ("idle", or "returned" from the call before) with _ensure_connected; the
\* end sentinel ends the inner iteration and so the outer one, the error
\* sentinel raises, any other message is yielded, and after a ResultMessage
\* the iteration returns.
ReceiveResponseNext ==
    /\ consumer \in {"idle", "returned", "responding"}
    /\ consumer # "responding" => client_query
    /\ message_stream # <<>>
    /\ message_stream' = Tail(message_stream)
    /\ LET m == Head(message_stream)
           sofar == IF consumer = "responding" THEN response ELSE <<>> IN
       CASE m.type = "end" ->
               consumer' = "returned" /\ response' = sofar /\ UNCHANGED yielded
         [] m.type = "error" ->
               consumer' = "raised" /\ response' = sofar /\ UNCHANGED yielded
         [] OTHER ->
               /\ yielded' = Append(yielded, m)
               /\ response' = Append(sofar, m)
               /\ consumer' = IF m.type = "result" THEN "returned" ELSE "responding"
    /\ UNCHANGED <<cfgVars, writeVars, mcpVars, sessionVars, permVars, facadeVars, transportVars, tg,
                   initialized, closed, request_counter, pending_control_responses,
                   pending_control_results, hook_callbacks, first_result_event,
                   reader, handlers, calls, stream, readConv, nInbound, errPending,
                   firstOutcome, notConnected, closes, dropped, starts>>

\* _ERROR_TYPE_TO_EXCEPTION.get(message.error, APIError), lines 35-42 and 64.
ErrorTypeToException(kind) ==
    CASE kind = "authentication_failed" -> "AuthenticationError"
      [] kind = "billing_error" -> "BillingError"
      [] kind = "rate_limit" -> "RateLimitError"
      [] kind = "invalid_request" -> "InvalidRequestError"
      [] kind = "server_error" -> "ServerError"
      [] OTHER -> "APIError"

\* _raise_if_api_error, lines 45-75: the exception it raises for a parsed
\* message, NoSub when it returns.  process_query calls it on every message
\* (line 202); ClaudeSDKClient.receive_messages (ConsumerNext) does not.
RaiseIfApiError(f) ==
    IF f.type = "assistant" /\ f.sub # NoSub
    THEN ErrorTypeToException(f.sub) ELSE NoSub

\* ------------------------------------------------------------------- close
\* A faulty variant of CloseReturnsEarly: close() without its guard.
CloseNeverReturnsEarly == FALSE

\* Lines 524-525: `if self._closed: return`.
CloseReturnsEarly == closed

\* How `await self._tg.__aexit__(None, None, None)` ends for the calling task:
\* leaving the group's cancel scope in a task that did not enter it raises
\* the "different task" RuntimeError; otherwise the failure of a child task is
\* re-raised; otherwise it returns (cancelled children are no failure).
AExitOutcome(task) ==
    IF task = "other" THEN "different_task"
    ELSE IF \E i \in DOMAIN handlers : handlers[i].pc = "crashed" THEN "child_error"
    ELSE "ok"

\* A faulty variant of CloseGoesOn that lets the "different task" error out.
CloseGoesOnOnlyIfClean(out) == out = "ok"

\* Lines 540-552: close() goes on to transport.close() when leaving the task
\* group returned or raised the "different task" RuntimeError; anything else
\* propagates out of close().
CloseGoesOn(out) == out \in {"ok", "different_task"}

\* ClaudeSDKClient.disconnect(), lines 412-417, around Query.close(), lines
\* 524-557; task tells whether the caller is the task that called start().
\* _closed is set and both cancel scopes are cancelled before the first await
\* of close(); then the task group is left and _tg reset, and
\* transport.close() follows unless leaving the group raised something
\* close() does not suppress.  disconnect() reaches `self._query = None` only
\* when close() returned.
ClientDisconnect(task) ==
    /\ facade = "client"
    /\ client_pc \in {"connected", "connect_failed", "disconnect_failed"}
    /\ client_query
    /\ IF CloseReturnsEarly
       THEN /\ closes' = Append(closes, [task |-> task, result |-> "returned_early"])
            /\ client_query' = FALSE
            /\ client_pc' = "disconnected"
            /\ UNCHANGED <<closed, tg, reader, handlers, stream, transport>>
       ELSE /\ closed' = TRUE
            /\ reader' = CancelledReader
            /\ handlers' = CancelledHandlers(handlers)
            /\ stream' = CancelledStream
            /\ tg' = FALSE
            /\ IF tg => CloseGoesOn(AExitOutcome(task))
               THEN /\ transport' = "closed"
                    /\ closes' = Append(closes, [task |-> task,
                                                 result |-> "closed_transport"])
                    /\ client_pc' = "disconnected"
                    /\ client_query' = FALSE
               ELSE /\ closes' = Append(closes, [task |-> task, result |-> "raised"])
                    /\ client_pc' = "disconnect_failed"
                    /\ UNCHANGED <<transport, client_query>>
    /\ UNCHANGED <<cfgVars, compVars, oneshot_pc, stdin_open, stdin, nread, initialized,
                   request_counter, pending_control_responses,
                   pending_control_results, hook_callbacks, first_result_event,
                   message_stream, calls, consumer, readConv, yielded, nInbound,
                   errPending, firstOutcome, notConnected, dropped, starts>>

\* Query.start(), lines 207-213, called again by a holder of the engine after
\* close() has reset _tg: start() looks at _tg only.
QueryStartAgain ==
    /\ closed
    /\ ~tg
    /\ Start
    /\ UNCHANGED <<cfgVars, compVars, facadeVars, transportVars, initialized, closed,
                   request_counter, pending_control_responses,
                   pending_control_results, hook_callbacks, first_result_event,
                   message_stream, handlers, calls, stream, consumer, readConv,
                   yielded, nInbound, errPending, firstOutcome, notConnected, closes,
                   dropped>>

\* Lines 230-232: a reader that runs with _closed set takes one frame from the
\* transport (still open) and leaves the loop without routing it.
ReaderReadClosed ==
    /\ reader.pc = "running"
    /\ closed
    /\ transport = "open"
    /\ nread' = nread + 1
    /\ reader' = [reader EXCEPT !.pc = "finally"]
    /\ UNCHANGED <<cfgVars, compVars, facadeVars, transport, stdin_open, stdin, queryVars,
                   handlers, calls, stream, consumer, histVars>>

\* ------------------------------------------------------------ process_query
\* Lines 110-140: validation, then transport.connect().
ProcessQueryConnect ==
    /\ facade = "oneshot"
    /\ oneshot_pc = "new"
    /\ IF can_use_tool /\ (prompt = "string" \/ permission_prompt_tool_name)
       THEN oneshot_pc' = "value_error" /\ UNCHANGED transport
       ELSE oneshot_pc' = "connected" /\ transport' = "open"
    /\ UNCHANGED <<cfgVars, compVars, client_pc, client_query, stdin_open, stdin, nread,
                   queryVars, taskVars, histVars>>

\* Lines 162-171: Query(...) is built, outside the try block of line 173.
ProcessQueryBuild ==
    /\ oneshot_pc = "connected"
    /\ oneshot_pc' = IF QueryInitAccepts(ProcessQueryKwargs)
                     THEN "built" ELSE "type_error"
    /\ UNCHANGED <<cfgVars, compVars, client_pc, client_query, transportVars, queryVars,
                   taskVars, histVars>>

\* ------------------------------------------------------ Transport.write()
\* A faulty variant of MayAcquire: write() without the write lock.
MayAcquireUnlocked(w) == TRUE

\* The write lock is free for writer w to take.
MayAcquire(w) == write_lock = NoWriter

\* A task calls write(line) on the connected transport and contends for the
\* write lock.
WriteCall(w) ==
    /\ transport = "open"
    /\ writers[w] = "idle"
    /\ writers' = [writers EXCEPT ![w] = "blocked"]
    /\ UNCHANGED <<engineVars, permVars, mcpVars, response, sessionVars, write_lock, stdin_bytes>>

\* The writer gets the lock.  With stdin half-closed or the child gone the
\* write fails with a connection error; otherwise the frame starts to go out
\* (the stream may take it in parts, the writer suspended in between).
WriteAcquire(w) ==
    /\ writers[w] = "blocked"
    /\ MayAcquire(w)
    /\ IF CanWrite
       THEN /\ write_lock' = w
            /\ stdin_bytes' = Append(stdin_bytes, [writer |-> w, part |-> "json"])
            /\ writers' = [writers EXCEPT ![w] = "sending"]
       ELSE /\ writers' = [writers EXCEPT ![w] = "failed"]
            /\ UNCHANGED <<write_lock, stdin_bytes>>
    /\ UNCHANGED <<engineVars, permVars, mcpVars, response, sessionVars>>

\* The rest of the frame, its newline included, goes out and the lock is
\* released.
WriteRelease(w) ==
    /\ writers[w] = "sending"
    /\ stdin_bytes' = Append(stdin_bytes, [writer |-> w, part |-> "newline"])
    /\ write_lock' = NoWriter
    /\ writers' = [writers EXCEPT ![w] = "done"]
    /\ UNCHANGED <<engineVars, permVars, mcpVars, response, sessionVars>>

\* --------------------------------------------------- in-process MCP servers
\* create_sdk_mcp_server, mcp_utils.py lines 153-225: the list_tools and
\* call_tool handlers are registered only `if tools:`.  catches tells what the
\* installed mcp package's call_tool decorator does with an exception of the
\* decorated function: it returns an isError result, or lets it through.
McpCreateServer(tools, catches) ==
    /\ ~mcp_server.built
    /\ mcp_server' = [tools |-> tools, built |-> TRUE, catches |-> catches]
    /\ UNCHANGED <<engineVars, permVars, writeVars, response, sessionVars, mcp_request, mcp_response>>

\* server.request_handlers.get(CallToolRequest) / .get(ListToolsRequest).
HasToolHandlers(server) == server.tools # {}

\* The handler the decorator made of call_tool (mcp_utils.py lines 191-222)
\* for a call of `tool`: "content" (it returns the content), "is_error" (the
\* decorator returns an isError result) or "raise".  call_tool raises
\* ValueError for a name that is not in tool_map, and lets an exception of the
\* tool's own handler through.
CallToolOutcome(server, tool, handler_raises) ==
    IF tool \notin server.tools \/ handler_raises
    THEN IF server.catches THEN "is_error" ELSE "raise"
    ELSE "content"

JsonRpcResult(id, is_error) ==
    [id |-> id, kind |-> "result", code |-> 0, is_error |-> is_error]

JsonRpcError(id, code) ==
    [id |-> id, kind |-> "error", code |-> code, is_error |-> FALSE]

\* process_mcp_request, lines 587-654.
ProcessMcpRequest(message, server, handler_raises) ==
    CASE message.method = "initialize" -> JsonRpcResult(message.id, FALSE)
      [] message.method = "tools/list" /\ HasToolHandlers(server) ->
            JsonRpcResult(message.id, FALSE)
      [] message.method = "tools/call" /\ HasToolHandlers(server) ->
            LET out == CallToolOutcome(server, message.tool, handler_raises) IN
            IF out = "raise"
            THEN JsonRpcError(message.id, InternalError)
            ELSE JsonRpcResult(message.id, out = "is_error")
      [] message.method = "notifications/initialized" ->
            JsonRpcResult(message.id, FALSE)
      [] OTHER -> JsonRpcError(message.id, MethodNotFound)

\* _handle_sdk_mcp_request, lines 397-402.
HandleSdkMcpRequest(server_name, message, handler_raises) ==
    IF server_name \notin sdk_mcp_servers
    THEN JsonRpcError(message.id, MethodNotFound)
    ELSE ProcessMcpRequest(message, mcp_server, handler_raises)

\* The CLI sends an mcp_message control_request with a nested JSON-RPC
\* message.
McpReceive(server_name, method, id, tool) ==
    /\ mcp_server.built
    /\ mcp_request = NoMcp
    /\ mcp_request' = [pc |-> "received", server_name |-> server_name,
                       method |-> method, id |-> id, tool |-> tool]
    /\ UNCHANGED <<engineVars, permVars, writeVars, response, sessionVars, mcp_server, mcp_response>>

\* _handle_control_request, lines 295-297 and 307-309: the JSON-RPC response
\* goes out under mcp_response in a success control_response.
McpRespond(handler_raises) ==
    /\ mcp_request.pc = "received"
    /\ mcp_request' = [mcp_request EXCEPT !.pc = "answered"]
    /\ mcp_response' =
          [pc |-> "written", subtype |-> "success",
           mcp_response |-> HandleSdkMcpRequest(mcp_request.server_name,
                                                mcp_request, handler_raises)]
    /\ UNCHANGED <<engineVars, permVars, writeVars, response, sessionVars, mcp_server>>

\* ------------------------------------------- Query._handle_permission_request
\* Lines 330-332: the updated_input of the object the callback returned, after
\* `if isinstance(result, PermissionResultAllow) and result.updated_input is
\* None: result.updated_input = req.input`; the assignment is made on the
\* returned object itself.
UpdatedInputAfter(result, input) ==
    LET before == IF result.kind = "shared" THEN allow_shared ELSE result.updated_input
    IN  IF result.kind # "deny" /\ before = None THEN input ELSE before

\* PermissionResultAllow.to_dict, lines 134-140 (and PermissionResultDeny's):
\* updatedInput is present when updated_input is not None.
ToDict(result, updated_input) ==
    IF result.kind = "deny" THEN [behavior |-> "deny", updatedInput |-> None]
    ELSE [behavior |-> "allow", updatedInput |-> updated_input]

\* _handle_permission_request, lines 316-333, and the response built from
\* its result in _handle_control_request, lines 291-292, for one request
\* with the given input whose callback returned `result`.
HandlePermissionRequest(input, result) ==
    /\ Len(permission_responses) < MaxPermissionRequests
    /\ LET after == UpdatedInputAfter(result, input) IN
       /\ allow_shared' = IF result.kind = "shared" THEN after ELSE allow_shared
       /\ permission_responses' =
             Append(permission_responses,
                    [input |-> input, returned |-> result,
                     response |-> ToDict(result, after)])
    /\ UNCHANGED <<engineVars, writeVars, mcpVars, response, sessionVars>>

\* ------------------------------------------------- Session, SessionManager
SessionIds == {"s1", "s2"}

\* What the client of a session delivers on its conversation channel: a
\* message, a ResultMessage, or the end of the channel (the CLI is gone).
SessionMessages == {"assistant", "result", "end"}

\* Session.__init__, lines 102-108, around a fresh ClaudeSDKClient.
\* connecting: connect() is in progress; connected: the client has its Query;
\* reading: the reader of that Query runs; buf: the conversation channel;
\* queries: calls of client.query(); closing: calls of close() that await
\* client.disconnect(); disconnects: calls of client.disconnect().
NewSession(state) ==
    [state |-> state, turns |-> 0, connecting |-> state = "connecting",
     connected |-> FALSE, reading |-> FALSE, buf |-> <<>>, queries |-> 0,
     closes |-> 0, closing |-> 0, disconnects |-> 0, emitted |-> 0]

RECURSIVE SumOver(_, _)
SumOver(f, S) ==
    IF S = {} THEN 0
    ELSE LET x == CHOOSE y \in S : TRUE IN f[x] + SumOver(f, S \ {x})

\* Messages emitted and close() calls made so far, over all sessions.
EmitCount == SumOver([sid \in DOMAIN sessions |-> sessions[sid].emitted], DOMAIN sessions)
CloseCount == SumOver([sid \in DOMAIN sessions |-> sessions[sid].closes], DOMAIN sessions)

\* The tasks of one event loop run one at a time between their awaits:
\* another task takes a step only while close_all() is not running or is
\* suspended in a disconnect() (session.py, line 388).
CloseAllSuspended == close_all.pc # "closing" \/ close_all.awaiting # NoSessionId

\* SessionManager._sessions: the ids the manager holds.
Held == DOMAIN sessions \ removed

\* Lines 280-284 of create_session: the sessions that count for the limit.
ActiveCount ==
    Cardinality({sid \in Held :
                    sessions[sid].state \in {"idle", "responding", "connecting"}})

\* SessionManager.create_session, lines 274-294, up to its first await.
\* (The id of a session the manager has removed is not used again.)
CreateSession(sid, connect) ==
    /\ CloseAllSuspended
    /\ Cardinality(sm_raised) < 2
    /\ sid \notin removed
    /\ IF sid \in Held
       THEN /\ sm_raised' = sm_raised \cup {<<sid, "ValueError">>}
            /\ UNCHANGED sessions
       ELSE IF ActiveCount >= MaxConcurrentSessions
       THEN /\ sm_raised' = sm_raised \cup {<<sid, "RuntimeError">>}
            /\ UNCHANGED sessions
       ELSE /\ sessions' = Put(sessions, sid,
                                NewSession(IF connect THEN "connecting" ELSE "created"))
            /\ UNCHANGED sm_raised
    /\ UNCHANGED <<engineVars, permVars, writeVars, mcpVars, response, sends, managerVars>>

\* Lines 295-301 of create_session: client.connect(prompt) returned or raised
\* (a disconnect() that ran before connect() had built its Query found
\* nothing to close, and connect() goes on to its end).
ConnectDone(sid, ok) ==
    /\ CloseAllSuspended
    /\ sid \in DOMAIN sessions
    /\ sessions[sid].connecting
    /\ sessions' =
          [sessions EXCEPT ![sid].connecting = FALSE,
                           ![sid].state = IF ok THEN "idle" ELSE "error",
                           ![sid].connected = ok,
                           ![sid].reading = ok]
    /\ UNCHANGED <<engineVars, permVars, writeVars, mcpVars, response, sends, sm_raised, managerVars>>

\* Lines 295-301 of create_session with ClaudeSDKClient.connect, lines
\* 136-146: connect() raised in start() or initialize(), after it had
\* assigned self._query; the client keeps that Query and its reader.
ConnectRaisedLate(sid) ==
    /\ CloseAllSuspended
    /\ sid \in DOMAIN sessions
    /\ sessions[sid].connecting
    /\ sessions' =
          [sessions EXCEPT ![sid].connecting = FALSE,
                           ![sid].state = "error",
                           ![sid].connected = TRUE,
                           ![sid].reading = TRUE]
    /\ UNCHANGED <<engineVars, permVars, writeVars, mcpVars, response, sends, sm_raised, managerVars>>

\* A faulty variant of SendAllowed: send() without its test of the state.
SendAllowedAlways(state) == TRUE

\* Line 157 of Session.send: `if self._state != "idle": raise RuntimeError`.
SendAllowed(state) == state = "idle"

\* Session.send, lines 157-166: the generator runs to its first await.
SessionSend(sid) ==
    /\ CloseAllSuspended
    /\ sid \in DOMAIN sessions
    /\ Len(sends) < MaxSends
    /\ IF SendAllowed(sessions[sid].state)
       THEN /\ sessions' = [sessions EXCEPT ![sid].state = "responding"]
            /\ sends' = Append(sends, [sid |-> sid, pc |-> "query"])
       ELSE /\ sends' = Append(sends, [sid |-> sid, pc |-> "rejected"])
            /\ UNCHANGED sessions
    /\ UNCHANGED <<engineVars, permVars, writeVars, mcpVars, response, sm_raised, managerVars>>

\* Lines 169 and 178-180: client.query(prompt) wrote the prompt, or raised
\* (_ensure_connected: the client has no Query).
SendQuery(k) ==
    /\ CloseAllSuspended
    /\ k \in DOMAIN sends
    /\ sends[k].pc = "query"
    /\ LET sid == sends[k].sid IN
       IF sessions[sid].connected
       THEN /\ sessions' = [sessions EXCEPT ![sid].queries = @ + 1]
            /\ sends' = [sends EXCEPT ![k].pc = "receiving"]
       ELSE /\ sessions' = [sessions EXCEPT ![sid].state = "error"]
            /\ sends' = [sends EXCEPT ![k].pc = "raised"]
    /\ UNCHANGED <<engineVars, permVars, writeVars, mcpVars, response, sm_raised, managerVars>>

\* The reader of the session's client puts a message of the CLI, or the end
\* sentinel, on the conversation channel.
SessionEmit(sid, m) ==
    /\ CloseAllSuspended
    /\ sid \in DOMAIN sessions
    /\ sessions[sid].reading
    /\ EmitCount < MaxEmits
    /\ sessions' = [sessions EXCEPT ![sid].buf = Append(@, m),
                                    ![sid].emitted = @ + 1,
                                    ![sid].reading = m # "end"]
    /\ UNCHANGED <<engineVars, permVars, writeVars, mcpVars, response, sends, sm_raised, managerVars>>

\* Lines 170-172 and 177: receive_response() hands over the next message of
\* the channel and send yields it, suspended there until its consumer asks
\* for the next one; or receive_response() returns because the channel
\* ended, and the state is set to idle.
SendReceive(k) ==
    /\ CloseAllSuspended
    /\ k \in DOMAIN sends
    /\ sends[k].pc = "receiving"
    /\ LET sid == sends[k].sid
           m == Head(sessions[sid].buf) IN
       /\ sessions[sid].buf # <<>>
       /\ IF m = "end"
          THEN /\ sessions' = [sessions EXCEPT ![sid].buf = Tail(@),
                                               ![sid].state = "idle"]
               /\ sends' = [sends EXCEPT ![k].pc = "finished"]
          ELSE /\ sessions' = [sessions EXCEPT ![sid].buf = Tail(@)]
               /\ sends' = [sends EXCEPT ![k].pc =
                                IF m = "result" THEN "yielded_result" ELSE "yielded"]
    /\ UNCHANGED <<engineVars, permVars, writeVars, mcpVars, response, sm_raised, managerVars>>

\* Lines 173-177: the consumer asks for the next message.  After a
\* ResultMessage the turn is recorded, receive_response() returns and the
\* state is set to idle; after another message the loop goes on.
SendResume(k) ==
    /\ CloseAllSuspended
    /\ k \in DOMAIN sends
    /\ sends[k].pc \in {"yielded", "yielded_result"}
    /\ LET sid == sends[k].sid IN
       IF sends[k].pc = "yielded"
       THEN /\ sends' = [sends EXCEPT ![k].pc = "receiving"]
            /\ UNCHANGED sessions
       ELSE /\ sessions' = [sessions EXCEPT ![sid].turns = @ + 1,
                                            ![sid].state = "idle"]
            /\ sends' = [sends EXCEPT ![k].pc = "finished"]
    /\ UNCHANGED <<engineVars, permVars, writeVars, mcpVars, response, sm_raised, managerVars>>

\* Lines 172 and 178-180: the consumer leaves its loop at a yielded message
\* and the generator is closed (aclose(), or the finalizer of the event
\* loop): GeneratorExit is raised at the `yield`; it is no Exception, the
\* `except Exception` clause does not run, and there is no `finally`.
SendAbandon(k) ==
    /\ CloseAllSuspended
    /\ k \in DOMAIN sends
    /\ sends[k].pc \in {"yielded", "yielded_result"}
    /\ sends' = [sends EXCEPT ![k].pc = "abandoned"]
    /\ UNCHANGED <<engineVars, permVars, writeVars, mcpVars, response, sessions, sm_raised,
                   managerVars>>

\* Session.close, lines 217-220: it returns when the state is disconnected,
\* else it awaits client.disconnect(), whose Query.close() stops the reader.
SessionClose(sid) ==
    /\ CloseAllSuspended
    /\ sid \in DOMAIN sessions
    /\ CloseCount < MaxCloses
    /\ IF sessions[sid].state = "disconnected"
       THEN sessions' = [sessions EXCEPT ![sid].closes = @ + 1]
       ELSE sessions' = [sessions EXCEPT ![sid].closes = @ + 1,
                                         ![sid].closing = @ + 1,
                                         ![sid].disconnects = @ + 1,
                                         ![sid].reading = FALSE]
    /\ UNCHANGED <<engineVars, permVars, writeVars, mcpVars, response, sends, sm_raised, managerVars>>

\* Lines 221-222: client.disconnect() returned (the client has dropped its
\* Query) or raised; `finally: self._state = "disconnected"`.
SessionCloseDone(sid, raised) ==
    /\ CloseAllSuspended
    /\ sid \in DOMAIN sessions
    /\ sessions[sid].closing > 0
    /\ raised => sessions[sid].connected
    /\ sessions' = [sessions EXCEPT ![sid].closing = @ - 1,
                                    ![sid].state = "disconnected",
                                    ![sid].connected = IF raised THEN @ ELSE FALSE]
    /\ UNCHANGED <<engineVars, permVars, writeVars, mcpVars, response, sends, sm_raised, managerVars>>

\* SessionManager.close_all, line 386: `list(self._sessions.values())`, the
\* sessions the loop will close (taken in any order here).
CloseAllBegin ==
    /\ close_all = NoCloseAll
    /\ Held # {}
    /\ close_all' = [pc |-> "closing", todo |-> Held, awaiting |-> NoSessionId]
    /\ UNCHANGED <<engineVars, permVars, writeVars, mcpVars, response, sessions, sends,
                   sm_raised, removed>>

\* Lines 386-388 with Session.close, lines 217-222: the loop calls close() on
\* its next session. close() returns at once on a disconnected session;
\* disconnect() of a client that has no Query (client.py, lines 414-417)
\* returns without suspending; else close() awaits Query.close().
CloseAllStep(sid) ==
    /\ close_all.pc = "closing"
    /\ close_all.awaiting = NoSessionId
    /\ sid \in close_all.todo
    /\ IF sessions[sid].state = "disconnected"
       THEN /\ close_all' = [close_all EXCEPT !.todo = @ \ {sid}]
            /\ UNCHANGED sessions
       ELSE IF ~sessions[sid].connected
       THEN /\ close_all' = [close_all EXCEPT !.todo = @ \ {sid}]
            /\ sessions' = [sessions EXCEPT ![sid].disconnects = @ + 1,
                                            ![sid].state = "disconnected"]
       ELSE /\ close_all' = [close_all EXCEPT !.awaiting = sid]
            /\ sessions' = [sessions EXCEPT ![sid].closing = @ + 1,
                                            ![sid].disconnects = @ + 1,
                                            ![sid].reading = FALSE]
    /\ UNCHANGED <<engineVars, permVars, writeVars, mcpVars, response, sends, sm_raised, removed>>

\* Lines 387-388 with Session.close, lines 221-222: disconnect() returned or
\* raised, close() set the state, and suppress(Exception) took what it raised.
CloseAllStepDone(raised) ==
    /\ close_all.pc = "closing"
    /\ close_all.awaiting # NoSessionId
    /\ LET sid == close_all.awaiting IN
       /\ raised => sessions[sid].connected
       /\ sessions' = [sessions EXCEPT ![sid].closing = @ - 1,
                                       ![sid].state = "disconnected",
                                       ![sid].connected = IF raised THEN @ ELSE FALSE]
       /\ close_all' = [close_all EXCEPT !.awaiting = NoSessionId, !.todo = @ \ {sid}]
    /\ UNCHANGED <<engineVars, permVars, writeVars, mcpVars, response, sends, sm_raised, removed>>

\* Line 389: `self._sessions.clear()`, and close_all returns.
CloseAllClear ==
    /\ close_all.pc = "closing"
    /\ close_all.awaiting = NoSessionId
    /\ close_all.todo = {}
    /\ removed' = DOMAIN sessions
    /\ close_all' = [close_all EXCEPT !.pc = "done"]
    /\ UNCHANGED <<engineVars, permVars, writeVars, mcpVars, response, sessions, sends, sm_raised>>

\* ---------------------------------------------------------------------- Next
Next ==
    \/ ClientConnect
    \/ QueryStart
    \/ Initialize
    \/ \E sub \in ControlOps : ClientOp(sub)
    \/ \E n \in 1..MaxRequests : CallResume(n)
    \/ \E n \in 1..MaxRequests : CallTimeout(n)
    \/ \E f \in AllFrames : ReaderRead(f)
    \/ ReaderEOF
    \/ ReaderRaise
    \/ ReaderPushError
    \/ ReaderPushEnd
    \/ \E i \in 1..MaxFrames : HandlerStart(i)
    \/ \E i \in 1..MaxFrames, raised \in BOOLEAN : HandlerCallbackDone(i, raised)
    \/ StreamWrite
    \/ StreamExhausted
    \/ StreamResult
    \/ StreamTimeout
    \/ ConsumerNext
    \/ \E task \in {"same", "other"} : ClientDisconnect(task)
    \/ ProcessQueryConnect
    \/ ProcessQueryBuild

Spec == Init /\ [][Next]_vars

\* The engine used past its close(): the runs of Spec for one option set (a
\* hook with one callable), in which the holder of the engine may call start()
\* again after close().
InitRestart ==
    /\ Init
    /\ ~can_use_tool
    /\ hooks = [e \in {HookEvent} |-> <<1>>]
    /\ sdk_mcp_servers = {}

NextRestart ==
    \/ Next
    \/ QueryStartAgain
    \/ ReaderReadClosed

SpecRestart == InitRestart /\ [][NextRestart]_vars

\* The runs of Spec for the same option set in which the consumer may read
\* with receive_response() as well.
NextResponse ==
    \/ Next
    \/ ReceiveResponseNext

SpecResponse == InitRestart /\ [][NextResponse]_vars

\* The runs of Spec for the same option set in which start() may be called
\* again while the engine runs.
NextStartTwice ==
    \/ Next
    \/ QueryStartRunning

SpecStartTwice == InitRestart /\ [][NextStartTwice]_vars

\* Concurrent writers on the transport of a client that connects with an
\* AsyncIterable prompt and no feature configured.
InitWrite ==
    /\ Init
    /\ facade = "client"
    /\ prompt = "stream"
    /\ ~can_use_tool
    /\ hooks = NoHooks
    /\ sdk_mcp_servers = {}

NextWrite ==
    \/ ClientConnect
    \/ \E w \in Writers : WriteCall(w)
    \/ \E w \in Writers : WriteAcquire(w)
    \/ \E w \in Writers : WriteRelease(w)

SpecWrite == InitWrite /\ [][NextWrite]_vars

\* One nested JSON-RPC request to the in-process server of an engine that has
\* the server ServerName configured.
InitMcp ==
    /\ Init
    /\ facade = "client"
    /\ prompt = "stream"
    /\ ~can_use_tool
    /\ hooks = NoHooks
    /\ sdk_mcp_servers = {ServerName}

NextMcp ==
    \/ \E tools \in SUBSET {ToolName}, catches \in BOOLEAN :
          McpCreateServer(tools, catches)
    \/ \E server_name \in {ServerName, "other"}, method \in McpMethods,
          id \in JsonRpcIds, tool \in CalledTools :
          McpReceive(server_name, method, id, tool)
    \/ \E handler_raises \in BOOLEAN : McpRespond(handler_raises)

SpecMcp == InitMcp /\ [][NextMcp]_vars

\* A SessionManager with max_concurrent_sessions = MaxConcurrentSessions and
\* the sessions it creates, each around a client of its own.
NextSession ==
    \/ \E sid \in SessionIds, connect \in BOOLEAN : CreateSession(sid, connect)
    \/ \E sid \in SessionIds, ok \in BOOLEAN : ConnectDone(sid, ok)
    \/ \E sid \in SessionIds : SessionSend(sid)
    \/ \E k \in 1..MaxSends : SendQuery(k)
    \/ \E sid \in SessionIds, m \in SessionMessages : SessionEmit(sid, m)
    \/ \E k \in 1..MaxSends : SendReceive(k)
    \/ \E k \in 1..MaxSends : SendResume(k)
    \/ \E k \in 1..MaxSends : SendAbandon(k)
    \/ \E sid \in SessionIds : SessionClose(sid)
    \/ \E sid \in SessionIds, raised \in BOOLEAN : SessionCloseDone(sid, raised)
    \/ \E sid \in SessionIds : ConnectRaisedLate(sid)

InitSession ==
    /\ Init
    /\ facade = "client"
    /\ prompt = "stream"
    /\ ~can_use_tool
    /\ hooks = NoHooks
    /\ sdk_mcp_servers = {}

SpecSession == InitSession /\ [][NextSession]_vars

\* An engine with a can_use_tool callback that answers permission requests.
InitPermission ==
    /\ Init
    /\ facade = "client"
    /\ prompt = "stream"
    /\ can_use_tool
    /\ ~permission_prompt_tool_name
    /\ hooks = NoHooks
    /\ sdk_mcp_servers = {}

NextPermission ==
    \E input \in ToolInputs, result \in CallbackResults :
        HandlePermissionRequest(input, result)

SpecPermission == InitPermission /\ [][NextPermission]_vars

\* A SessionManager whose sessions are closed by close_all() (or by leaving
\* its `async with` block, lines 407-408) while its other operations go on.
NextCloseAll ==
    \/ \E sid \in SessionIds, connect \in BOOLEAN : CreateSession(sid, connect)
    \/ \E sid \in SessionIds, ok \in BOOLEAN : ConnectDone(sid, ok)
    \/ \E sid \in SessionIds : ConnectRaisedLate(sid)
    \/ \E sid \in SessionIds : SessionSend(sid)
    \/ \E k \in 1..MaxSends : SendQuery(k)
    \/ \E sid \in SessionIds, m \in SessionMessages : SessionEmit(sid, m)
    \/ \E k \in 1..MaxSends : SendReceive(k)
    \/ \E k \in 1..MaxSends : SendResume(k)
    \/ CloseAllBegin
    \/ \E sid \in SessionIds : CloseAllStep(sid)
    \/ \E raised \in BOOLEAN : CloseAllStepDone(raised)
    \/ CloseAllClear

SpecCloseAll == InitSession /\ [][NextCloseAll]_vars

\* =================================================================== claims
ResponseCount(i) ==
    Cardinality({k \in DOMAIN stdin :
                    stdin[k].type = "control_response" /\ stdin[k].id = i})

UserFrames == Cardinality({k \in DOMAIN stdin : stdin[k].type = "user"})

IsPrefix(a, b) == Len(a) <= Len(b) /\ SubSeq(b, 1, Len(a)) = a

\* A hook callable or an in-process tool server is registered with the engine.
Registered == hook_callbacks # {} \/ sdk_mcp_servers # {}

\* C1: every inbound control_request the reader has read and the engine is
\* through with (its handler returned or failed, or no handler could be
\* started for it) has exactly one control_response with its request id on
\* stdin.
C1_ExactlyOneResponse ==
    \A i \in 1..nInbound :
        (i \notin DOMAIN handlers \/ handlers[i].pc \in {"done", "crashed"})
            => ResponseCount(i) = 1

\* C2: the outcome recorded for a request id, and the outcome its waiter gets
\* from the table, is the first one recorded for that id: no later response
\* or reader error replaces it.
C2_OutcomeNeverReplaced ==
    \A n \in DOMAIN firstOutcome :
        /\ n \in DOMAIN pending_control_results
              => pending_control_results[n] = firstOutcome[n]
        /\ (n \in DOMAIN calls /\ calls[n].pc = "done"
               /\ calls[n].outcome \notin {"timeout", "write_error"})
              => calls[n].outcome = firstOutcome[n]

\* C3: from the moment the reader has caught a fatal error, and so before it
\* pushes the error sentinel, every request that was pending without a result
\* has the error as its outcome: recorded with its event set, or already
\* raised to its waiter.
C3_FatalErrorDrainsPending ==
    reader.failed =>
        \A n \in errPending :
            \/ /\ n \in DOMAIN pending_control_results
               /\ pending_control_results[n] = "transport"
               /\ n \in DOMAIN pending_control_responses
               /\ pending_control_responses[n]
            \/ /\ n \in DOMAIN calls
               /\ calls[n].pc = "done"
               /\ calls[n].outcome = "transport"

\* C3 happens: read_messages raised (no control_request was read, so no parse
\* failed) with a request pending, the error sentinel is not pushed yet, and
\* the waiter is released with the error.
C3_Witness ==
    /\ reader.pc = "push_error"
    /\ nInbound = 0
    /\ \E n \in errPending :
          /\ n \in DOMAIN calls
          /\ calls[n].pc = "waiting"
          /\ n \in DOMAIN pending_control_responses
          /\ pending_control_responses[n]
          /\ pending_control_results[n] = "transport"

\* C4: once a call of _send_control_request has returned or raised, its id is
\* in neither correlation table.
C4_EntriesRemoved ==
    \A n \in DOMAIN calls :
        calls[n].pc = "done" =>
            /\ n \notin DOMAIN pending_control_responses
            /\ n \notin DOMAIN pending_control_results

\* C5: what receive_messages has yielded is a prefix of the conversation
\* frames read, and when its iteration is over it is all of them.
C5_WireOrderNoLoss ==
    /\ IsPrefix(yielded, readConv)
    /\ consumer \in {"ended", "raised"} => yielded = readConv

\* C6: no frame of the CLI ends the consumer's sequence or makes it raise: the
\* sequence ends only when the reader is through, and raises only when the
\* reader failed.
C6_NoFrameEndsOrRaises ==
    /\ consumer = "ended" => reader.pc = "done"
    /\ consumer = "raised" => reader.failed

\* C7: a control request other than initialize goes through
\* _send_control_request only in the initialized state.
C7_OnlyWhenInitialized ==
    \A n \in DOMAIN calls :
        calls[n].sub # "initialize" => calls[n].state = "initialized"

\* C8: with a hook or a tool server registered, stdin is half-closed only by
\* stream_input leaving its wait, the result event set or the timeout elapsed.
C8_WaitsForResultOrTimeout ==
    [][(Registered /\ stdin_open /\ ~stdin_open')
          => /\ stream.pc = "wait"
             /\ first_result_event \/ stream'.ctx = "timeout"]_vars

\* C8 happens: a hook callable is registered, the iterable was exhausted and
\* stdin was half-closed on the result.
C8_Witness ==
    /\ hook_callbacks # {}
    /\ stream.pc = "done"
    /\ stream.ctx = "result"
    /\ ~stdin_open
    /\ UserFrames = MaxInput

\* C9: with no hook and no tool server registered, stream_input never waits:
\* stdin is half-closed on exhaustion of the iterable.
C9_NoWaitWhenNothingRegistered ==
    (hook_callbacks = {} /\ sdk_mcp_servers = {}) =>
        /\ stream.pc # "wait"
        /\ stream.ctx \notin {"result", "timeout"}

\* C10: a one-shot run with a string prompt and a hook or tool server
\* configured writes its single user frame before it ends, and half-closes
\* stdin only once the result event is set or the timeout elapsed.
C10_StringPromptAsSingleMessage ==
    (facade = "oneshot" /\ prompt = "string" /\ ~can_use_tool
        /\ (HookCallableCount > 0 \/ sdk_mcp_servers # {})) =>
        /\ oneshot_pc \notin {"new", "connected"} => UserFrames = 1
        /\ ~stdin_open => first_result_event \/ stream.ctx = "timeout"

ErrorResponseCount(i) ==
    Cardinality({k \in DOMAIN stdin :
                    /\ stdin[k].type = "control_response"
                    /\ stdin[k].id = i
                    /\ stdin[k].sub = "error"})

\* C11: a handler whose permission callback, hook callback or tool dispatch
\* raised ends with one error control_response for its request id on stdin,
\* and ends by returning (so the engine goes on dispatching).
C11_RaisingCallbackAnswered ==
    \A i \in DOMAIN handlers :
        (handlers[i].raised /\ handlers[i].pc \in {"done", "crashed"}) =>
            /\ ErrorResponseCount(i) = 1
            /\ handlers[i].pc = "done"

\* The callback an inbound request needs is not registered: a can_use_tool
\* request without a permission callback, a hook_callback whose id is not in
\* the registry.
Unregistered(i) ==
    /\ i \in DOMAIN handlers
    /\ HandlerBranch(handlers[i].sub) = "raise"

\* C12: an inbound request whose callback is not registered is answered, once
\* its handler has run, with one error control_response for its id, and the
\* handler returns: the task group with the reader in it is not cancelled.
C12_UnregisteredAnsweredWithError ==
    \A i \in DOMAIN handlers :
        (Unregistered(i) /\ handlers[i].pc \in {"done", "crashed"}) =>
            /\ ErrorResponseCount(i) = 1
            /\ ResponseCount(i) = 1
            /\ handlers[i].pc = "done"

\* C13: no handler task ends by an exception, and the reader is cancelled by
\* close() only.
C13_HandlerFailureContained ==
    /\ \A i \in DOMAIN handlers : handlers[i].pc # "crashed"
    /\ reader.pc = "cancelled" => closed

\* C14: once read_messages has raised (no control_request was read, so the
\* failure is no parse failure), no step of the consumer ends its sequence
\* normally, and the step that raises comes when every conversation frame
\* read has been yielded.
C14_FailureRaisesAfterMessages ==
    [][(reader.failed /\ nInbound = 0 /\ consumer' # consumer)
          => /\ consumer' # "ended"
             /\ consumer' = "raised" => yielded' = readConv']_vars

\* The reader task is over: it returned or it was cancelled.
ReaderStopped == reader.pc \in {"done", "cancelled"}

\* C15: a reader that is over has sent the end sentinel.
C15_EndSentinelWhenStopped == ReaderStopped => reader.sent_end

\* A call of close() that ran its body has completed (returned or raised).
CloseCompleted ==
    \E k \in DOMAIN closes : closes[k].result \in {"closed_transport", "raised"}

TransportCloses ==
    Cardinality({k \in DOMAIN closes : closes[k].result = "closed_transport"})

\* C16: once close() has completed, no control request issued in the
\* initialized state is still blocked on its event or still in the
\* correlation table.
C16_CloseReleasesWaiters ==
    CloseCompleted =>
        \A n \in DOMAIN calls :
            calls[n].state = "initialized" =>
                /\ calls[n].pc # "waiting"
                /\ n \notin DOMAIN pending_control_responses

C18_ClosedIsTerminal ==
    [][closed => /\ tg' => tg
                 /\ reader'.pc = "running" => reader.pc = "running"
                 /\ nread' = nread]_vars

\* C19: a first call of close() that has completed has closed the transport.
C19_CloseClosesTransport ==
    CloseCompleted => transport = "closed"

C21_ErrorMessageNeverYielded ==
    \A k \in DOMAIN yielded : RaiseIfApiError(yielded[k]) = NoSub

\* C22: with a permission callback configured together with a
\* permission-prompt-tool name or with a string prompt, neither facade gets
\* past its validation: the transport is never connected, no engine exists,
\* nothing is written and the client holds no Query.
C22_ConflictRejectedBeforeConnect ==
    (can_use_tool /\ (permission_prompt_tool_name \/ prompt = "string")) =>
        /\ transport = "new"
        /\ ~client_query
        /\ ~tg
        /\ reader.pc = "idle"
        /\ request_counter = 0
        /\ stdin = <<>>
        /\ client_pc \in {"new", "value_error"}
        /\ oneshot_pc \in {"new", "value_error"}

\* C22 happens: connect() with an AsyncIterable prompt was rejected for the
\* callback and the tool name being both set.
C22_Witness ==
    /\ can_use_tool
    /\ permission_prompt_tool_name
    /\ prompt = "stream"
    /\ client_pc = "value_error"
    /\ transport = "new"

\* Chunks of writer w on stdin.
ChunksOf(w) == {k \in DOMAIN stdin_bytes : stdin_bytes[k].writer = w}

\* C23: at most one write is in progress on stdin; every frame on stdin is
\* followed by its own newline before anything else (the last one may still
\* be going out); a write that returned put exactly one frame there; and no
\* write on the connected transport fails.
C23_WritesSerialized ==
    /\ Cardinality({w \in Writers : writers[w] = "sending"}) <= 1
    /\ \A k \in DOMAIN stdin_bytes :
          IF stdin_bytes[k].part = "json"
          THEN /\ k % 2 = 1
               /\ IF k < Len(stdin_bytes)
                  THEN stdin_bytes[k + 1] =
                          [writer |-> stdin_bytes[k].writer, part |-> "newline"]
                  ELSE writers[stdin_bytes[k].writer] = "sending"
          ELSE k % 2 = 0
    /\ \A w \in Writers :
          /\ writers[w] = "done" => Cardinality(ChunksOf(w)) = 2
          /\ writers[w] # "failed"

\* C23 happens: all writers called write() at once; one has written its
\* frame, one is in the middle of its write and one waits for the lock.
C23_Witness ==
    /\ \E w \in Writers : writers[w] = "done"
    /\ \E w \in Writers : writers[w] = "sending"
    /\ \E w \in Writers : writers[w] = "blocked"
    /\ Len(stdin_bytes) = 3

\* C24: a request that timed out is in neither correlation table from then
\* on and its caller has the timeout error; a control_response for its id or
\* for an id never issued changes neither that nor the tables, and no
\* control_response is ever put on the conversation channel.
C24_LateResponseDropped ==
    /\ \A n \in DOMAIN calls :
          calls[n].outcome = "timeout" =>
              /\ calls[n].pc = "done"
              /\ n \notin DOMAIN pending_control_responses
              /\ n \notin DOMAIN pending_control_results
    /\ 0 \notin DOMAIN pending_control_responses \cup DOMAIN pending_control_results
    /\ \A k \in DOMAIN message_stream : message_stream[k].type # "control_response"
    /\ \A k \in DOMAIN yielded : yielded[k].type # "control_response"

\* C24 happens: an interrupt request timed out and its response, read
\* afterwards, was dropped.
C24_Witness ==
    \E n \in DOMAIN calls :
        /\ calls[n].sub = "interrupt"
        /\ calls[n].outcome = "timeout"
        /\ n \in dropped

\* C25: a tools/call to a configured server that names a tool not registered
\* on it is answered, in a success control_response, with a JSON-RPC error of
\* code -32601 carrying the request's id.
C25_UnknownToolMethodNotFound ==
    (/\ mcp_request.pc = "answered"
     /\ mcp_request.method = "tools/call"
     /\ mcp_request.server_name \in sdk_mcp_servers
     /\ mcp_request.tool \notin mcp_server.tools) =>
        /\ mcp_response.subtype = "success"
        /\ mcp_response.mcp_response.kind = "error"
        /\ mcp_response.mcp_response.code = MethodNotFound
        /\ mcp_response.mcp_response.id = mcp_request.id

ResultsIn(seq) == Cardinality({k \in DOMAIN seq : seq[k].type = "result"})

\* C26: an iteration of receive_response that has returned yielded exactly
\* one ResultMessage, as its last message (in runs where the CLI sent no
\* frame of type "end" or "error", which the channel takes for a sentinel).
C26_ResponseEndsOnResult ==
    (/\ consumer = "returned"
     /\ \A k \in DOMAIN readConv : readConv[k].type \notin {"end", "error"}) =>
        /\ response # <<>>
        /\ response[Len(response)].type = "result"
        /\ ResultsIn(response) = 1

\* C27: however often start() was called, a running engine has one task
\* group with one reader task in it (one was ever started), and the frames
\* routed are no more than the frames read.
C27_SecondStartNoOp ==
    (tg /\ ~closed) =>
        /\ starts.readers = 1
        /\ Len(readConv) + nInbound + Cardinality(dropped) <= nread

\* C27 happens: start() was called a second time while the reader was
\* running, and the reader went on to read a frame.
C27_Witness ==
    /\ starts.calls = 2
    /\ starts.readers = 1
    /\ tg
    /\ ~closed
    /\ reader.pc = "running"
    /\ nread = MaxFrames

\* The send generators of a session that are between their first step and
\* their end.
SendsInProgress(sid) ==
    {k \in DOMAIN sends :
        /\ sends[k].sid = sid
        /\ sends[k].pc \in {"query", "receiving", "yielded", "yielded_result"}}

\* C28: a send() on a session whose state is not idle raises RuntimeError
\* and changes nothing of the session (its state, its turns, what its client
\* was sent); and no session ever has two sends in progress.
C28_SendRequiresIdle ==
    [][/\ \A k \in DOMAIN sends' \ DOMAIN sends :
             sessions[sends'[k].sid].state # "idle" =>
                 /\ sends'[k].pc = "rejected"
                 /\ sessions' = sessions
       /\ \A sid \in SessionIds : Cardinality(SendsInProgress(sid)') <= 1]_vars

\* C28 happens: while a send is receiving on a session, a second send on it
\* was rejected.
C28_Witness ==
    \E k1, k2 \in DOMAIN sends :
        /\ sends[k1].sid = sends[k2].sid
        /\ sends[k1].pc = "receiving"
        /\ sends[k2].pc = "rejected"
        /\ sessions[sends[k1].sid].state = "responding"
        /\ sessions[sends[k1].sid].queries = 1

\* C29: the sessions of the manager in state connecting, idle or responding
\* are never more than max_concurrent_sessions; create_session stores a
\* session only below the limit and raises RuntimeError only at the limit.
C29_ConcurrentSessionsBounded ==
    [][/\ ActiveCount' <= MaxConcurrentSessions
       /\ DOMAIN sessions' # DOMAIN sessions => ActiveCount < MaxConcurrentSessions
       /\ \A sid \in SessionIds :
             (<<sid, "RuntimeError">> \in sm_raised' \ sm_raised)
                 => ActiveCount >= MaxConcurrentSessions]_vars

\* C30: when a close() that awaited disconnect() is over, whether disconnect()
\* returned or raised, the state is disconnected; and a session in state
\* disconnected stays there, with no further call of disconnect().
C30_DisconnectedIsFinal ==
    [][\A sid \in DOMAIN sessions :
          /\ sessions'[sid].closing < sessions[sid].closing
                => sessions'[sid].state = "disconnected"
          /\ sessions[sid].state = "disconnected"
                => /\ sessions'[sid].state = "disconnected"
                   /\ sessions'[sid].disconnects = sessions[sid].disconnects]_vars

\* C31: when close_all() returns, the manager holds no session and every
\* session it held is in state disconnected, whether or not a disconnect()
\* raised.
C31_CloseAllClosesAll ==
    [][(close_all.pc = "closing" /\ close_all'.pc = "done") =>
          /\ Held' = {}
          /\ \A sid \in removed' : sessions'[sid].state = "disconnected"]_vars

\* C32: of several control_response frames with one request id the first
\* resolves the request: once a response is recorded for a pending id, no
\* later step changes the recorded outcome, and the waiter, when it resumes,
\* gets the outcome of that first response.
C32_FirstResponseWins ==
    [][\A n \in DOMAIN firstOutcome :
          firstOutcome[n] \in {"success", "protocol"} =>
              /\ (n \in DOMAIN pending_control_results
                     /\ n \in DOMAIN pending_control_results')
                    => pending_control_results'[n] = pending_control_results[n]
              /\ (n \in DOMAIN calls /\ calls[n].pc = "waiting"
                     /\ calls'[n].pc = "done")
                    => calls'[n].outcome = firstOutcome[n]]_vars

\* C33: every answer to a can_use_tool request whose callback returned allow
\* without an updated input (a new result or the one it returns every time)
\* carries the input of that same request as updatedInput, and an updated
\* input the callback supplied is sent as it is.
C33_UpdatedInputOfSameRequest ==
    \A k \in DOMAIN permission_responses :
        LET r == permission_responses[k] IN
        r.returned.kind # "deny" =>
            r.response.updatedInput =
                IF r.returned.updated_input = None THEN r.input
                ELSE r.returned.updated_input

\* A handler is suspended in a callback of the consumer while the reader has
\* frames left to read.
HandlerSuspended ==
    /\ \E i \in DOMAIN handlers : handlers[i].pc = "callback"
    /\ reader.pc = "running"
    /\ ~closed
    /\ nread < MaxFrames

\* C34: while a handler is suspended in a consumer callback the reader can
\* take every frame the CLI may send and routes it as ever: a control_response
\* for a pending request sets its event, a conversation frame is enqueued, a
\* control_request gets a handler of its own; and a waiter whose event is set
\* can resume, so a request issued from the callback gets its answer.
C34_ReaderNotBlockedByHandler ==
    HandlerSuspended =>
        /\ \A f \in AllFrames :
              CliMayEmit(f) =>
                  CASE f.type = "control_response" /\ IsPending(f.id) ->
                          ENABLED (ReaderRead(f) /\ pending_control_responses'[f.id])
                    [] f.type = "control_request" /\ ParseOk(f.sub) ->
                          ENABLED (ReaderRead(f) /\ f.id \in DOMAIN handlers'
                                      /\ \A i \in DOMAIN handlers : handlers'[i] = handlers[i])
                    [] f.type \notin ControlTypes ->
                          ENABLED (ReaderRead(f)
                                      /\ message_stream' = Append(message_stream, f))
                    [] OTHER -> ENABLED ReaderRead(f)
        /\ \A n \in DOMAIN calls :
              (calls[n].pc = "waiting" /\ n \in DOMAIN pending_control_responses
                  /\ pending_control_responses[n] /\ n \in DOMAIN pending_control_results)
                 => ENABLED CallResume(n)

\* C34 happens: a handler is suspended in its callback while an outbound
\* request waits for its response.
C34_Witness ==
    /\ HandlerSuspended
    /\ \E n \in DOMAIN calls :
          /\ calls[n].pc = "waiting"
          /\ n \in DOMAIN pending_control_responses
          /\ ~pending_control_responses[n]

\* C35: no control_request, control_response or control_cancel_request frame
\* is on the conversation channel or yielded by receive_messages, and the
\* read of a conversation frame leaves the pending outbound requests, their
\* recorded results and their waiters as they were.
C35_TrafficClassesApart ==
    [][/\ \A k \in DOMAIN yielded' : yielded'[k].type \notin ControlTypes
       /\ \A k \in DOMAIN message_stream' : message_stream'[k].type \notin ControlTypes
       /\ (nread' = nread + 1 /\ readConv' # readConv)
             => UNCHANGED <<pending_control_responses, pending_control_results,
                            calls, firstOutcome>>]_vars

\* C35 happens: frames of both kinds were read, a conversation message was
\* yielded, and an outbound request is still pending without a result.
C35_Witness ==
    /\ yielded # <<>>
    /\ nread = MaxFrames
    /\ dropped # {} \/ nInbound > 0
    /\ \E n \in Unresolved : n \in DOMAIN calls /\ calls[n].pc = "waiting"

\* C36: once process_query has connected the transport, it does not end,
\* the error while the engine is built included, with the transport still
\* open.
C36_OneShotLeavesTransportClosed ==
    (facade = "oneshot" /\ oneshot_pc \notin {"new", "value_error", "connected", "built"})
        => transport = "closed"

\* C37: when connect() has raised after it connected the transport, the
\* client has no engine (its control operations raise the not-connected
\* error) and the engine and the transport it started are closed.
C37_FailedConnectLeavesNothing ==
    client_pc = "connect_failed" =>
        /\ ~client_query
        /\ closed
        /\ transport = "closed"

\* C38: when an iteration of send() that passed the test of the state ends,
\* by completion, by an exception or because its consumer abandoned it, the
\* session is not left in state responding.
C38_SendEndLeavesResponding ==
    [][\A k \in DOMAIN sends :
          (k \in SendsInProgress(sends[k].sid) /\ k \notin SendsInProgress(sends[k].sid)')
              => sessions'[sends[k].sid].state # "responding"]_vars

====
